---- MODULE Spec2Model ----
(***************************************************************************)
(* Model of word.py: the run-preserving text replacer                      *)
(* (replace_text_in_runs, copy_font_style), the document substitution      *)
(* driver (process_all_text_locations) and the monthly batch loop          *)
(* (generate_monthly_reports_docx).                                        *)
(*                                                                         *)
(* A text is a sequence of characters; a character is a one-character      *)
(* string, except the two that have no TLA+ literal: NBSP (U+00A0) and LF  *)
(* (the line break).  Python's None is the string "None".                  *)
(***************************************************************************)
EXTENDS Integers, Sequences, FiniteSets, TLC

VARIABLES
    pc,          \* position of the modelled program
    paragraph,   \* paragraph.runs: sequence of [text, style, font]
    old_text,    \* argument of replace_text_in_runs
    new_text,    \* argument of replace_text_in_runs
    ret,         \* value returned by replace_text_in_runs ("None" before)
    added,       \* the add_run calls of the last rebuild, in order
    before,      \* paragraph.runs as they were when the call was made
    ab,          \* a copy of the paragraph: placeholder A replaced, then B
    ba,          \* a copy of the paragraph: placeholder B replaced, then A
    phA, newA,   \* placeholder A and its replacement text
    phB, newB,   \* placeholder B and its replacement text
    document,    \* the document process_all_text_locations works on
    passes,      \* the document before the first pass and after each pass
    date_placeholder, new_date_str, name_prefix, new_name,
                 \* arguments of process_all_text_locations
    target_month, target_year,
                 \* arguments of generate_monthly_reports_docx
    template_file,
                 \* the file at template_path: "ok", "missing" or "corrupt"
    i,           \* loop variable of `for i in range(days_in_month)`
    attempted,   \* the values of i whose iteration has begun
    files,       \* output files written: [name, document]
    temps,       \* temp_report_{i}.docx files present, by i
    printed      \* what has been printed, in order

replaceVars == <<paragraph, old_text, new_text, ret, added>>
orderVars == <<ab, ba, phA, newA, phB, newB>>
driverVars == <<document, passes, date_placeholder, new_date_str, name_prefix,
                new_name>>
batchVars == <<target_month, target_year, template_file, i, attempted, files,
               temps, printed>>
vars == <<pc, before, replaceVars, orderVars, driverVars, batchVars>>

NBSP == "NBSP"
LF == "LF"

Max(a, b) == IF a > b THEN a ELSE b
Min(a, b) == IF a < b THEN a ELSE b

(***************************************************************************)
(* Fonts and styles                                                        *)
(***************************************************************************)

\* The font of a run that add_run has just created: nothing is set.
NewFont ==
    [name |-> "None", size |-> "None", bold |-> "None", italic |-> "None",
     underline |-> "None", strike |-> "None", subscript |-> "None",
     superscript |-> "None", color |-> "None", highlight |-> "None"]

\* `if source_font.color.rgb:` / `if source_font.highlight_color:` inside
\* try/except: the attribute is copied when reading it succeeds and the value
\* is truthy; a read that raises is swallowed.
Readable(v) == v # "Unreadable"
Truthy(v) == v # "None"

copy_font_style_DropsItalic(source_font, target_font) ==
    [target_font EXCEPT
        !.name = source_font.name,
        !.size = source_font.size,
        !.bold = source_font.bold,
        !.underline = source_font.underline,
        !.strike = source_font.strike,
        !.subscript = source_font.subscript,
        !.superscript = source_font.superscript,
        !.color = IF Readable(source_font.color) /\ Truthy(source_font.color)
                  THEN source_font.color ELSE @,
        !.highlight = IF Readable(source_font.highlight)
                         /\ Truthy(source_font.highlight)
                      THEN source_font.highlight ELSE @]

copy_font_style(source_font, target_font) ==
    [target_font EXCEPT
        !.name = source_font.name,
        !.size = source_font.size,
        !.bold = source_font.bold,
        !.italic = source_font.italic,
        !.underline = source_font.underline,
        !.strike = source_font.strike,
        !.subscript = source_font.subscript,
        !.superscript = source_font.superscript,
        !.color = IF Readable(source_font.color) /\ Truthy(source_font.color)
                  THEN source_font.color ELSE @,
        !.highlight = IF Readable(source_font.highlight)
                         /\ Truthy(source_font.highlight)
                      THEN source_font.highlight ELSE @]

(***************************************************************************)
(* Strings                                                                 *)
(***************************************************************************)

\* "".join(run.text for run in paragraph.runs)
RECURSIVE Join(_)
Join(runs) ==
    IF runs = <<>> THEN <<>> ELSE Head(runs).text \o Join(Tail(runs))

\* text[a:b] for 0 <= a, b <= len(text)
Slice(text, a, b) == SubSeq(text, a + 1, b)

\* `sub in full`
Contains(full, sub) ==
    \E s \in 0..(Len(full) - Len(sub)) : Slice(full, s, s + Len(sub)) = sub

str_rfind(full, sub) ==
    IF Contains(full, sub)
    THEN CHOOSE s \in 0..(Len(full) - Len(sub)) :
            /\ Slice(full, s, s + Len(sub)) = sub
            /\ \A t \in (s + 1)..(Len(full) - Len(sub)) :
                   Slice(full, t, t + Len(sub)) # sub
    ELSE -1

\* full.find(sub): the lowest index, -1 when absent
str_find(full, sub) ==
    IF Contains(full, sub)
    THEN CHOOSE s \in 0..(Len(full) - Len(sub)) :
            /\ Slice(full, s, s + Len(sub)) = sub
            /\ \A t \in 0..(s - 1) : Slice(full, t, t + Len(sub)) # sub
    ELSE -1

NbspVariant_Identity(text) == text

\* old_text.replace(" ", "\xa0")
NbspVariant(text) ==
    [k \in 1..Len(text) |-> IF text[k] = " " THEN NBSP ELSE text[k]]

(***************************************************************************)
(* replace_text_in_runs                                                    *)
(***************************************************************************)

\* new_run = paragraph.add_run(text); new_run.style = style;
\* copy_font_style(font, new_run.font).  `site` is the place of the call in
\* the loop ("pre", "new", "post", "copy") and `src` the index in runs_data of
\* the run whose style and font are copied; neither is stored in the document.
AddRun(text, style, font, site, src) ==
    [text |-> text, style |-> style, font |-> copy_font_style(font, NewFont),
     site |-> site, src |-> src]

OverlapsInclusive(overlap_start, overlap_end) == overlap_start <= overlap_end

\* `if overlap_start < overlap_end:`
Overlaps(overlap_start, overlap_end) == overlap_start < overlap_end

EmitNew_Always(replacement_done) == TRUE

\* `if not replacement_done:`
EmitNew(replacement_done) == ~replacement_done

\* One iteration of `for text, style, font in runs_data:`; returns the runs it
\* adds and the new value of replacement_done.
RebuildStep(run, k, current_pos, replacement_done, start_index, end_index, new) ==
    LET text == run.text
        run_len == Len(text)
        overlap_start == Max(current_pos, start_index)
        overlap_end == Min(current_pos + run_len, end_index)
        pre_text == Slice(text, 0, overlap_start - current_pos)
        post_text == Slice(text, overlap_end - current_pos, run_len)
    IN  IF Overlaps(overlap_start, overlap_end)
        THEN [runs |->
                (IF pre_text # <<>>
                 THEN <<AddRun(pre_text, run.style, run.font, "pre", k)>>
                 ELSE <<>>)
                \o (IF EmitNew(replacement_done)
                    THEN <<AddRun(new, run.style, run.font, "new", k)>>
                    ELSE <<>>)
                \o (IF post_text # <<>>
                    THEN <<AddRun(post_text, run.style, run.font, "post", k)>>
                    ELSE <<>>),
              done |-> IF EmitNew(replacement_done) THEN TRUE
                       ELSE replacement_done]
        ELSE [runs |-> <<AddRun(text, run.style, run.font, "copy", k)>>,
              done |-> replacement_done]

\* The loop over runs_data from index k on.
RECURSIVE Rebuild(_, _, _, _, _, _, _)
Rebuild(runs_data, k, current_pos, replacement_done, start_index, end_index, new) ==
    IF k > Len(runs_data)
    THEN <<>>
    ELSE LET step == RebuildStep(runs_data[k], k, current_pos, replacement_done,
                                 start_index, end_index, new)
         IN  step.runs
             \o Rebuild(runs_data, k + 1, current_pos + Len(runs_data[k].text),
                        step.done, start_index, end_index, new)

\* What the document keeps of an added run.
AsRun(a) == [text |-> a.text, style |-> a.style, font |-> a.font]

AsRuns(adds) == [k \in 1..Len(adds) |-> AsRun(adds[k])]

\* The negation of the `return False` path: old_text occurs, or its
\* non-breaking-space variant does.
Found(full_text, old) ==
    Contains(full_text, old) \/ Contains(full_text, NbspVariant(old))

\* The value of old_text after the `if old_text not in full_text:` block.
SearchText(full_text, old) ==
    IF Contains(full_text, old) THEN old ELSE NbspVariant(old)

EndIndex_OneShort(start_index, found) == start_index + Len(found) - 1

\* end_index = start_index + len(old_text)
EndIndex(start_index, found) == start_index + Len(found)

replace_text_in_runs_ClearsFirst(runs, old, new) ==
    LET full_text == Join(runs)
        found == SearchText(full_text, old)
    IN  IF ~Found(full_text, old)
        THEN [ret |-> FALSE, runs |-> <<>>, added |-> <<>>]
        ELSE LET start_index == str_find(full_text, found)
                 end_index == EndIndex(start_index, found)
                 adds == Rebuild(runs, 1, 0, FALSE, start_index, end_index, new)
             IN  [ret |-> TRUE, runs |-> AsRuns(adds), added |-> adds]

\* replace_text_in_runs(paragraph, old_text, new_text) on a paragraph whose
\* runs are `runs`: the value returned, the paragraph's runs afterwards, and
\* the add_run calls made.
replace_text_in_runs(runs, old, new) ==
    LET full_text == Join(runs)
        found == SearchText(full_text, old)
    IN  IF ~Found(full_text, old)
        THEN [ret |-> FALSE, runs |-> runs, added |-> <<>>]
        ELSE LET start_index == str_find(full_text, found)
                 end_index == EndIndex(start_index, found)
                 adds == Rebuild(runs, 1, 0, FALSE, start_index, end_index, new)
             IN  [ret |-> TRUE, runs |-> AsRuns(adds), added |-> adds]

(***************************************************************************)
(* Inputs of the replacer                                                  *)
(***************************************************************************)

MaxRuns == 3

FmtBold ==
    [style |-> "Strong",
     font |-> [NewFont EXCEPT !.name = "Arial", !.size = "Pt12",
                              !.bold = "True", !.color = "FF0000"]]

FmtMarked ==
    [style |-> "DefaultParagraphFont",
     font |-> [NewFont EXCEPT !.italic = "True", !.underline = "True",
                              !.color = "Unreadable", !.highlight = "YELLOW"]]

Formats == {FmtBold, FmtMarked}

RunTexts == {<<>>, <<"a">>, <<" ">>, <<"a", NBSP>>, <<" ", "a", " ">>}

Runs == {[text |-> t, style |-> f.style, font |-> f.font] :
            t \in RunTexts, f \in Formats}

Paragraphs == UNION {[1..n -> Runs] : n \in 0..MaxRuns}

OldTexts == {<<>>, <<"a">>, <<"a", " ">>, <<" ", "a">>, <<"a", " ", "a">>, <<"b">>}

NewTexts == {<<>>, <<"b">>, <<"a", " ">>}

(***************************************************************************)
(* The replacer called once on an arbitrary paragraph                      *)
(***************************************************************************)

ReplaceIdle ==
    /\ paragraph = <<>> /\ old_text = <<>> /\ new_text = <<>>
    /\ ret = "None" /\ added = <<>>

OrderIdle ==
    /\ ab = <<>> /\ ba = <<>>
    /\ phA = <<>> /\ newA = <<>> /\ phB = <<>> /\ newB = <<>>

DriverIdle ==
    /\ document = <<>> /\ passes = <<>>
    /\ date_placeholder = <<>> /\ new_date_str = <<>>
    /\ name_prefix = <<>> /\ new_name = <<>>

BatchIdle ==
    /\ target_month = 0 /\ target_year = 0 /\ template_file = "None"
    /\ i = 0 /\ attempted = {} /\ files = {} /\ temps = {} /\ printed = <<>>

InitReplace ==
    /\ pc = "ready"
    /\ OrderIdle /\ DriverIdle /\ BatchIdle
    /\ paragraph \in Paragraphs
    /\ old_text \in OldTexts
    /\ new_text \in NewTexts
    /\ ret = "None"
    /\ added = <<>>
    /\ before = paragraph

CallReplace ==
    /\ pc = "ready"
    /\ LET r == replace_text_in_runs(paragraph, old_text, new_text)
       IN  /\ paragraph' = r.runs
           /\ ret' = r.ret
           /\ added' = r.added
    /\ before' = paragraph
    /\ pc' = "returned"
    /\ UNCHANGED <<old_text, new_text, orderVars, driverVars, batchVars>>

NextReplace == CallReplace

SpecReplace == InitReplace /\ [][NextReplace]_vars

(***************************************************************************)
(* Two placeholders replaced in either order                               *)
(***************************************************************************)

MaxRunsOrder == 2

OrderParagraphs == UNION {[1..n -> Runs] : n \in 0..MaxRunsOrder}

Placeholders == {<<"a">>, <<" ">>, <<"a", " ">>, <<" ", "a">>}

Replacements == {<<>>, <<"b">>, <<" ">>}

InitOrder ==
    /\ pc = "ready"
    /\ ReplaceIdle /\ DriverIdle /\ BatchIdle
    /\ before \in OrderParagraphs
    /\ ab = before
    /\ ba = before
    /\ phA \in Placeholders /\ newA \in Replacements
    /\ phB \in Placeholders /\ newB \in Replacements

\* replace_text_in_runs(p, A, newA) on one copy, (p, B, newB) on the other
ReplaceFirst ==
    /\ pc = "ready"
    /\ ab' = replace_text_in_runs(ab, phA, newA).runs
    /\ ba' = replace_text_in_runs(ba, phB, newB).runs
    /\ pc' = "first"
    /\ UNCHANGED <<before, replaceVars, phA, newA, phB, newB, driverVars,
                   batchVars>>

\* then the other placeholder on each copy
ReplaceSecond ==
    /\ pc = "first"
    /\ ab' = replace_text_in_runs(ab, phB, newB).runs
    /\ ba' = replace_text_in_runs(ba, phA, newA).runs
    /\ pc' = "second"
    /\ UNCHANGED <<before, replaceVars, phA, newA, phB, newB, driverVars,
                   batchVars>>

NextOrder == ReplaceFirst \/ ReplaceSecond

SpecOrder == InitOrder /\ [][NextOrder]_vars

(***************************************************************************)
(* process_all_text_locations                                              *)
(***************************************************************************)

\* Python's str.isspace() on the characters of the model
IsSpace(c) == c \in {" ", NBSP, LF}

\* text.strip(): leading and trailing whitespace removed
RECURSIVE Strip(_)
Strip(text) ==
    IF text = <<>> THEN <<>>
    ELSE IF IsSpace(Head(text)) THEN Strip(Tail(text))
    ELSE IF IsSpace(text[Len(text)]) THEN Strip(SubSeq(text, 1, Len(text) - 1))
    ELSE text

\* match.group(1).strip()
OldProfileLine(matched) == Strip(matched)

\* re.compile(f"({re.escape(name_prefix)}.*)").search(full_para_text): the
\* leftmost occurrence of the prefix, extended by `.*` up to the next line
\* break (`.` matches no line break) or the end of the text.
RegexSearch(prefix, full_para_text) ==
    IF ~Contains(full_para_text, prefix)
    THEN [found |-> FALSE, group1 |-> <<>>]
    ELSE LET s == str_find(full_para_text, prefix)
             from == s + Len(prefix)
             stops == {e \in from..Len(full_para_text) :
                          \/ e = Len(full_para_text)
                          \/ full_para_text[e + 1] = LF}
             e == CHOOSE x \in stops : \A y \in stops : x <= y
         IN  [found |-> TRUE, group1 |-> Slice(full_para_text, s, e)]

\* The body of `for paragraph in ...:` (A. Replace Date, B. Replace Name),
\* the same in both loops; returns the paragraph's runs afterwards.
ProcessParagraph(runs, date_ph, new_date, prefix, name) ==
    LET dated == replace_text_in_runs(runs, date_ph, new_date).runs
        full_para_text == Join(dated)
        match == RegexSearch(prefix, full_para_text)
        old_profile_line == OldProfileLine(match.group1)
        new_profile_line == prefix \o <<" ">> \o name
    IN  IF match.found
        THEN replace_text_in_runs(dated, old_profile_line, new_profile_line).runs
        ELSE dated

ProcessParagraphs(paras, date_ph, new_date, prefix, name) ==
    [k \in DOMAIN paras |->
        ProcessParagraph(paras[k], date_ph, new_date, prefix, name)]

\* A document is [paragraphs, tables]; a table a sequence of rows, a row a
\* sequence of cells, a cell a sequence of paragraphs; a paragraph its runs.
process_all_text_locations(doc, date_ph, new_date, prefix, name) ==
    [paragraphs |->
        ProcessParagraphs(doc.paragraphs, date_ph, new_date, prefix, name),
     tables |->
        [t \in DOMAIN doc.tables |->
            [r \in DOMAIN doc.tables[t] |->
                [c \in DOMAIN doc.tables[t][r] |->
                    ProcessParagraphs(doc.tables[t][r][c], date_ph, new_date,
                                      prefix, name)]]]]

\* DATE_PLACEHOLDER = "Le 01/09/2025"
DATE_PLACEHOLDER ==
    <<"L", "e", " ", "0", "1", "/", "0", "9", "/", "2", "0", "2", "5">>

\* NAME_PLACEHOLDER_PREFIX = "Profil\xa0:"
NAME_PLACEHOLDER_PREFIX == <<"P", "r", "o", "f", "i", "l", NBSP, ":">>

\* TARGET_NAME = ""
TARGET_NAME == <<>>

DigitChar(d) == <<"0", "1", "2", "3", "4", "5", "6", "7", "8", "9">>[d + 1]

\* "%02d" and "%04d" of strftime
TwoDigits(n) == <<DigitChar((n \div 10) % 10), DigitChar(n % 10)>>
FourDigits(n) == TwoDigits(n \div 100) \o TwoDigits(n % 100)

\* current_date.strftime("Le %d/%m/%Y")
FormattedDateFr(day, month, year) ==
    <<"L", "e", " ">> \o TwoDigits(day) \o <<"/">> \o TwoDigits(month)
        \o <<"/">> \o FourDigits(year)

(***************************************************************************)
(* The driver applied to a document, more than once                        *)
(***************************************************************************)

MaxRunsDoc == 3
MaxPasses == 2

DocRunTexts ==
    {<<>>, <<" ">>, <<"L", "e", " ">>,
     <<"0", "1", "/", "0", "9", "/", "2", "0", "2", "5">>,
     NAME_PLACEHOLDER_PREFIX, <<" ", "J", "e", "a", "n">>}

DocRuns == {[text |-> t, style |-> f.style, font |-> f.font] :
               t \in DocRunTexts, f \in {FmtBold}}
           \cup {[text |-> <<LF, "x">>, style |-> FmtMarked.style,
                  font |-> FmtMarked.font]}

DocParagraphs == UNION {[1..n -> DocRuns] : n \in 0..MaxRunsDoc}

\* The name line of a template, in a table cell
ProfileLine ==
    <<[text |-> NAME_PLACEHOLDER_PREFIX, style |-> FmtBold.style,
       font |-> FmtBold.font],
      [text |-> <<" ", "J", "e", "a", "n">>, style |-> FmtMarked.style,
       font |-> FmtMarked.font]>>

\* No table, or one table of one row of two cells.
DocTables == {<<>>, << << << <<ProfileLine>>, <<>> >> >> >>}

InitDriver ==
    /\ pc = "ready"
    /\ ReplaceIdle /\ OrderIdle /\ BatchIdle
    /\ before = <<>>
    /\ \E p \in DocParagraphs, t \in DocTables :
          document = [paragraphs |-> <<p>>, tables |-> t]
    /\ passes = <<document>>
    /\ date_placeholder = DATE_PLACEHOLDER
    /\ new_date_str \in {FormattedDateFr(3, 11, 2025),
                         FormattedDateFr(1, 9, 2025)}
    /\ name_prefix = NAME_PLACEHOLDER_PREFIX
    /\ new_name \in {TARGET_NAME, <<"B", "o", "b">>}

\* process_all_text_locations(document, ...) called on the document
Process ==
    /\ pc \in {"ready", "processed"}
    /\ Len(passes) <= MaxPasses
    /\ document' = process_all_text_locations(document, date_placeholder,
                                              new_date_str, name_prefix,
                                              new_name)
    /\ passes' = Append(passes, document')
    /\ pc' = "processed"
    /\ UNCHANGED <<before, replaceVars, orderVars, batchVars, date_placeholder,
                   new_date_str, name_prefix, new_name>>

NextDriver == Process

SpecDriver == InitDriver /\ [][NextDriver]_vars

(***************************************************************************)
(* generate_monthly_reports_docx                                           *)
(***************************************************************************)

IsLeap(year) == year % 4 = 0 /\ (year % 100 # 0 \/ year % 400 = 0)

\* calendar.monthrange(target_year, target_month)[1]
DaysInMonth(year, month) ==
    IF month = 2 THEN (IF IsLeap(year) THEN 29 ELSE 28)
    ELSE IF month \in {4, 6, 9, 11} THEN 30
    ELSE 31

\* datetime(target_year, target_month, 1) raises ValueError
InvalidDate(year, month) == month \notin 1..12 \/ year \notin 1..9999

\* current_date.strftime('%d-%m-%Y') for current_date = start_date + i days
DatePart(k, month, year) ==
    TwoDigits(k + 1) \o <<"-">> \o TwoDigits(month) \o <<"-">> \o FourDigits(year)

\* The document the template file holds: the date line (bold "Le ", then the
\* date), the name line, and a table whose only cell repeats the date line.
DateLine ==
    <<[text |-> <<"L", "e", " ">>, style |-> FmtBold.style, font |-> FmtBold.font],
      [text |-> <<"0", "1", "/", "0", "9", "/", "2", "0", "2", "5">>,
       style |-> FmtMarked.style, font |-> FmtMarked.font]>>

TemplateDocument ==
    [paragraphs |-> <<DateLine, ProfileLine>>,
     tables |-> << << << <<DateLine>> >> >> >>]

\* The file new_doc.save(output_filename) writes in iteration k
OutputFile(k, month, year) ==
    [name |-> DatePart(k, month, year),
     document |-> process_all_text_locations(
                      TemplateDocument, DATE_PLACEHOLDER,
                      FormattedDateFr(k + 1, month, year),
                      NAME_PLACEHOLDER_PREFIX, TARGET_NAME)]

InitBatch ==
    /\ pc = "start"
    /\ ReplaceIdle /\ OrderIdle /\ DriverIdle
    /\ before = <<>>
    /\ target_month \in 0..13
    /\ target_year \in {2027, 2028, 2100}
    /\ template_file \in {"ok", "missing", "corrupt"}
    /\ i = 0 /\ attempted = {} /\ files = {} /\ temps = {} /\ printed = <<>>

\* datetime(...) raises ValueError: the error is printed, the function returns
RejectDate ==
    /\ pc = "start"
    /\ InvalidDate(target_year, target_month)
    /\ printed' = Append(printed, "Error: Invalid month or year")
    /\ pc' = "done"
    /\ UNCHANGED <<before, replaceVars, orderVars, driverVars, target_month,
                   target_year, template_file, i, attempted, files, temps>>

\* docx.Document(template_path) raises before the loop: FileNotFoundError or
\* another exception, caught by the handlers that follow the loop
TemplateFails ==
    /\ pc = "start"
    /\ ~InvalidDate(target_year, target_month)
    /\ template_file # "ok"
    /\ printed' = printed \o <<"Starting report generation",
                              IF template_file = "missing"
                              THEN "Error: template not found"
                              ELSE "An unexpected error occurred">>
    /\ pc' = "done"
    /\ UNCHANGED <<before, replaceVars, orderVars, driverVars, target_month,
                   target_year, template_file, i, attempted, files, temps>>

\* the template loads: the loop is entered
EnterLoop ==
    /\ pc = "start"
    /\ ~InvalidDate(target_year, target_month)
    /\ template_file = "ok"
    /\ printed' = Append(printed, "Starting report generation")
    /\ pc' = "loop"
    /\ UNCHANGED <<before, replaceVars, orderVars, driverVars, target_month,
                   target_year, template_file, i, attempted, files, temps>>

\* One iteration in which nothing raises: copy, open, substitute, save,
\* remove the temporary file, print.
DayGenerated ==
    /\ pc = "loop"
    /\ i < DaysInMonth(target_year, target_month)
    /\ attempted' = attempted \cup {i}
    /\ files' = files \cup {OutputFile(i, target_month, target_year)}
    /\ printed' = Append(printed, "Generated")
    /\ i' = i + 1
    /\ UNCHANGED <<pc, before, replaceVars, orderVars, driverVars, target_month,
                   target_year, template_file, temps>>

\* One iteration in which shutil.copyfile, docx.Document(temp_path),
\* new_doc.save or os.remove raises: control leaves the loop for the handler
\* of the try that encloses it, which prints the error; the function ends.
DayFails ==
    /\ pc = "loop"
    /\ i < DaysInMonth(target_year, target_month)
    /\ attempted' = attempted \cup {i}
    /\ \E call \in {"copyfile", "Document", "save", "remove"} :
          /\ temps' \in (IF call = "copyfile"
                         THEN {temps, temps \cup {i}}
                         ELSE {temps \cup {i}})
          /\ files' = IF call = "remove"
                      THEN files \cup {OutputFile(i, target_month, target_year)}
                      ELSE files
    /\ printed' = Append(printed, "An unexpected error occurred")
    /\ pc' = "done"
    /\ UNCHANGED <<before, replaceVars, orderVars, driverVars, target_month,
                   target_year, template_file, i>>

\* range(days_in_month) is exhausted
LoopEnds ==
    /\ pc = "loop"
    /\ i = DaysInMonth(target_year, target_month)
    /\ pc' = "done"
    /\ UNCHANGED <<before, replaceVars, orderVars, driverVars, batchVars>>

NextBatch ==
    \/ RejectDate
    \/ TemplateFails
    \/ EnterLoop
    \/ DayGenerated
    \/ DayFails
    \/ LoopEnds

SpecBatch == InitBatch /\ [][NextBatch]_vars

(***************************************************************************)
(* Vocabulary of the properties, defined without the operators above       *)
(***************************************************************************)

\* The paragraph's visible text: run texts concatenated in order.
RECURSIVE Concat(_, _)
Concat(runs, n) ==
    IF n = 0 THEN <<>> ELSE Concat(runs, n - 1) \o runs[n].text

TextOf(runs) == Concat(runs, Len(runs))

OccursAt(T, p, s) ==
    /\ s \in 0..(Len(T) - Len(p))
    /\ \A k \in 1..Len(p) : T[s + k] = p[k]

Occurs(T, p) == \E s \in 0..Len(T) : OccursAt(T, p, s)

FirstAt(T, p) ==
    CHOOSE s \in 0..Len(T) :
        OccursAt(T, p, s) /\ \A t \in 0..(s - 1) : ~OccursAt(T, p, t)

\* T[0:s] + new + T[s+n:]
Splice(T, s, n, new) == SubSeq(T, 1, s) \o new \o SubSeq(T, s + n + 1, Len(T))

\* p with every ordinary space replaced by U+00A0
SpacesToNbsp(p) == [k \in DOMAIN p |-> IF p[k] = " " THEN NBSP ELSE p[k]]

\* The text the lookup policy matches: the literal, else the variant.
Matched(T, p) == IF Occurs(T, p) THEN p ELSE SpacesToNbsp(p)

Hit(T, p) == Occurs(T, p) \/ Occurs(T, SpacesToNbsp(p))

\* Offset of the first character of run k, and the offset after its last.
RunStart(runs, k) == Len(Concat(runs, k - 1))
RunEnd(runs, k) == Len(Concat(runs, k))

\* Run k holds at least one character of [s, e).
HoldsMatched(runs, k, s, e) ==
    \E j \in s..(e - 1) : RunStart(runs, k) <= j /\ j < RunEnd(runs, k)

\* The run holding the character at offset j.
RunOfChar(runs, j) ==
    CHOOSE k \in DOMAIN runs : RunStart(runs, k) <= j /\ j < RunEnd(runs, k)

IsSet(v) == v \notin {"None", "Unreadable"}

\* Run `new` is formatted as run `orig`: style reference and font attributes,
\* colour and highlight when set on `orig`.
SameFormat(orig, new) ==
    /\ new.style = orig.style
    /\ new.font.name = orig.font.name
    /\ new.font.size = orig.font.size
    /\ new.font.bold = orig.font.bold
    /\ new.font.italic = orig.font.italic
    /\ new.font.underline = orig.font.underline
    /\ new.font.strike = orig.font.strike
    /\ new.font.subscript = orig.font.subscript
    /\ new.font.superscript = orig.font.superscript
    /\ (IsSet(orig.font.color) => new.font.color = orig.font.color)
    /\ (IsSet(orig.font.highlight) => new.font.highlight = orig.font.highlight)

BeforeText == TextOf(before)
MatchStart == FirstAt(BeforeText, Matched(BeforeText, old_text))
MatchEnd == MatchStart + Len(Matched(BeforeText, old_text))
Returned == pc = "returned"

(***************************************************************************)
(* Properties of replace_text_in_runs                                      *)
(***************************************************************************)

\* C1: when a non-empty old_text occurs literally in the paragraph's text T,
\* the call returns True and the paragraph's text becomes
\* T[0:s] + new_text + T[s+len(old_text):], s the first occurrence.
C1_FirstOccurrenceReplaced ==
    (Returned /\ old_text # <<>> /\ Occurs(BeforeText, old_text))
    => /\ ret = TRUE
       /\ TextOf(paragraph) =
            Splice(BeforeText, FirstAt(BeforeText, old_text), Len(old_text),
                   new_text)

\* C1 happens: old_text occurs at two offsets of a paragraph that has a
\* zero-length run, and the text is deleted (new_text empty).
C1_Witness ==
    /\ Returned /\ ret = TRUE /\ old_text # <<>> /\ new_text = <<>>
    /\ \E s, t \in 0..Len(BeforeText) :
          s # t /\ OccursAt(BeforeText, old_text, s)
                /\ OccursAt(BeforeText, old_text, t)
    /\ \E k \in DOMAIN before : before[k].text = <<>>

\* C2: when neither old_text nor its non-breaking-space variant occurs, the
\* call returns False and the run sequence is what it was.
C2_NoOpOnMiss ==
    (Returned /\ ~Occurs(BeforeText, old_text)
              /\ ~Occurs(BeforeText, SpacesToNbsp(old_text)))
    => (ret = FALSE /\ paragraph = before /\ added = <<>>)

\* C2 happens: a miss of a text with a space on a paragraph of several runs.
C2_Witness ==
    /\ Returned /\ ret = FALSE /\ Len(before) >= 2 /\ BeforeText # <<>>
    /\ \E k \in DOMAIN old_text : old_text[k] = " "

\* C3: for a match of a non-empty old_text, exactly one of the rebuilt runs
\* is the run added for the replacement, and it carries new_text.
C3_SingleEmission ==
    (Returned /\ old_text # <<>> /\ Hit(BeforeText, old_text))
    => /\ Len(paragraph) = Len(added)
       /\ Cardinality({k \in DOMAIN added : added[k].site = "new"}) = 1
       /\ \A k \in DOMAIN added :
             added[k].site = "new" => paragraph[k].text = new_text

\* C3 happens: the match spans two runs with a zero-length run between them.
C3_Witness ==
    /\ Returned /\ ret = TRUE /\ old_text # <<>>
    /\ \E f, g, h \in DOMAIN before :
          /\ f < g /\ g < h
          /\ before[g].text = <<>>
          /\ HoldsMatched(before, f, MatchStart, MatchEnd)
          /\ HoldsMatched(before, h, MatchStart, MatchEnd)

\* C4: after a successful call every character outside the matched range
\* [start, end) is in the rebuilt paragraph, in order, in a run formatted as
\* the run it came from.
C4_FormatPreserved ==
    (Returned /\ Hit(BeforeText, old_text))
    => LET T == BeforeText
           R == TextOf(paragraph)
           s == MatchStart
           e == MatchEnd
           shift == Len(R) - Len(T)
       IN  /\ Len(R) >= s /\ Len(R) - s >= Len(T) - e
           /\ \A j \in 1..s :
                 /\ R[j] = T[j]
                 /\ SameFormat(before[RunOfChar(before, j - 1)],
                               paragraph[RunOfChar(paragraph, j - 1)])
           /\ \A j \in (e + 1)..Len(T) :
                 /\ R[j + shift] = T[j]
                 /\ SameFormat(before[RunOfChar(before, j - 1)],
                               paragraph[RunOfChar(paragraph, j + shift - 1)])

\* C4 happens: the match splits a run into a prefix and a suffix, and another,
\* differently formatted run lies entirely outside the match.
C4_Witness ==
    /\ Returned /\ ret = TRUE /\ old_text # <<>>
    /\ \E k, m \in DOMAIN before :
          /\ RunStart(before, k) < MatchStart /\ MatchEnd < RunEnd(before, k)
          /\ before[m].text # <<>>
          /\ ~HoldsMatched(before, m, MatchStart, MatchEnd)
          /\ before[m].style # before[k].style

\* C5: the run added for the replacement has the style and font of the first
\* original run that holds a matched character.
C5_FirstOverlapFormat ==
    (Returned /\ old_text # <<>> /\ Hit(BeforeText, old_text))
    => \E k \in DOMAIN added :
          /\ added[k].site = "new"
          /\ k \in DOMAIN paragraph
          /\ \E f \in DOMAIN before :
                /\ HoldsMatched(before, f, MatchStart, MatchEnd)
                /\ \A g \in 1..(f - 1) :
                      ~HoldsMatched(before, g, MatchStart, MatchEnd)
                /\ SameFormat(before[f], paragraph[k])

\* C5 happens: the first run holding matched text comes after a differently
\* formatted run and before a differently formatted run that also holds
\* matched text.
C5_Witness ==
    /\ Returned /\ ret = TRUE /\ old_text # <<>>
    /\ \E e, f, g \in DOMAIN before :
          /\ e < f /\ f < g
          /\ ~HoldsMatched(before, e, MatchStart, MatchEnd)
          /\ HoldsMatched(before, f, MatchStart, MatchEnd)
          /\ HoldsMatched(before, g, MatchStart, MatchEnd)
          /\ before[e].style # before[f].style
          /\ before[g].style # before[f].style

\* C6: the literal old_text is looked up first and replaced at its first
\* occurrence when present; only when it is absent, and its variant with
\* U+00A0 for every space is present, the first occurrence of the variant is
\* replaced; either way the call returns True.
C6_LookupPolicy ==
    (Returned /\ old_text # <<>>)
    => LET T == BeforeText
           v == SpacesToNbsp(old_text)
       IN  /\ Occurs(T, old_text)
              => /\ ret = TRUE
                 /\ TextOf(paragraph) =
                      Splice(T, FirstAt(T, old_text), Len(old_text), new_text)
           /\ (~Occurs(T, old_text) /\ Occurs(T, v))
              => /\ ret = TRUE
                 /\ TextOf(paragraph) = Splice(T, FirstAt(T, v), Len(v), new_text)
           /\ ret = TRUE => (Occurs(T, old_text) \/ Occurs(T, v))

\* C6 happens: only the variant occurs, and it is replaced.
C6_Witness ==
    /\ Returned /\ ret = TRUE
    /\ ~Occurs(BeforeText, old_text)
    /\ Occurs(BeforeText, SpacesToNbsp(old_text))
    /\ new_text # <<>>

\* C6 also happens with the literal present after an earlier variant.
C6_LiteralAfterVariant ==
    /\ Returned /\ ret = TRUE
    /\ Occurs(BeforeText, old_text)
    /\ Occurs(BeforeText, SpacesToNbsp(old_text))
    /\ SpacesToNbsp(old_text) # old_text
    /\ FirstAt(BeforeText, SpacesToNbsp(old_text)) < FirstAt(BeforeText, old_text)

(***************************************************************************)
(* Properties of two replacements in either order                          *)
(***************************************************************************)

\* Where the lookup policy finds placeholder p in text T.
LookStart(T, p) == FirstAt(T, Matched(T, p))
LookEnd(T, p) == LookStart(T, p) + Len(Matched(T, p))

\* No occurrence of p (literal or variant) shares a character with one of q.
NoOverlap(T, p, q) ==
    \A s, t \in 0..Len(T) :
        \A x \in {p, SpacesToNbsp(p)}, y \in {q, SpacesToNbsp(q)} :
            (OccursAt(T, x, s) /\ OccursAt(T, y, t))
            => (s + Len(x) <= t \/ t + Len(y) <= s)

\* T after placeholder p is replaced by n.
After(T, p, n) == Splice(T, LookStart(T, p), Len(Matched(T, p)), n)

\* Replacing p by n leaves the lookup of q on the same characters: the same
\* form of q is found, at its old offset, moved by the change of length when
\* it lies after p.
SameMatchAfter(T, p, n, q) ==
    /\ Hit(After(T, p, n), q)
    /\ Matched(After(T, p, n), q) = Matched(T, q)
    /\ LookStart(After(T, p, n), q) =
         IF LookStart(T, q) >= LookEnd(T, p)
         THEN LookStart(T, q) + Len(n) - Len(Matched(T, p))
         ELSE LookStart(T, q)

BothOrdersDone == pc = "second"

TwoPlaceholders ==
    /\ phA # <<>> /\ phB # <<>>
    /\ Hit(BeforeText, phA) /\ Hit(BeforeText, phB)
    /\ NoOverlap(BeforeText, phA, phB)

\* C7 as stated: two placeholders whose occurrences do not overlap give the
\* same paragraph in either order of replacement.
C7_OrderIndependent ==
    (BothOrdersDone /\ TwoPlaceholders) => ab = ba

\* C7 amended: the same, provided neither replacement changes the match the
\* lookup finds for the other placeholder.
C7_OrderIndependentStableMatches ==
    (/\ BothOrdersDone /\ TwoPlaceholders
     /\ SameMatchAfter(BeforeText, phA, newA, phB)
     /\ SameMatchAfter(BeforeText, phB, newB, phA))
    => ab = ba

\* C7 happens: both placeholders are replaced, in differently formatted runs,
\* one by the empty text.
C7_Witness ==
    /\ BothOrdersDone /\ TwoPlaceholders
    /\ SameMatchAfter(BeforeText, phA, newA, phB)
    /\ SameMatchAfter(BeforeText, phB, newB, phA)
    /\ newA = <<>> /\ newB # <<>>
    /\ before[RunOfChar(before, LookStart(BeforeText, phA))].style
         # before[RunOfChar(before, LookStart(BeforeText, phB))].style
    /\ ab = ba /\ ab # before

(***************************************************************************)
(* Properties of process_all_text_locations                                *)
(***************************************************************************)

\* The paragraphs of document d paired with the same paragraphs of e.
ParagraphPairs(d, e) ==
    {<<d.paragraphs[k], e.paragraphs[k]>> : k \in DOMAIN d.paragraphs}
    \cup UNION {UNION {UNION {
            {<<d.tables[t][r][c][k], e.tables[t][r][c][k]>> :
                k \in DOMAIN d.tables[t][r][c]} :
            c \in DOMAIN d.tables[t][r]} :
            r \in DOMAIN d.tables[t]} :
            t \in DOMAIN d.tables}

\* The paragraph's text once the date step of the pass has been made.
Dated(T) ==
    IF Hit(T, date_placeholder) THEN After(T, date_placeholder, new_date_str)
    ELSE T

\* C8: after a pass, a paragraph that contained name_prefix reads: what
\* preceded the first name_prefix, then name_prefix, a space and new_name,
\* and nothing else -- the whole remainder of the text is replaced.  (What
\* precedes the prefix is read after the date step of the same pass;
\* paragraphs with a line break are left aside.)
C8_NameLineReplaced ==
    (pc = "processed" /\ Len(passes) >= 2)
    => \A pair \in ParagraphPairs(passes[1], passes[2]) :
          LET T == Dated(TextOf(pair[1]))
          IN  (Occurs(T, name_prefix) /\ ~Occurs(T, <<LF>>))
              => TextOf(pair[2]) =
                   SubSeq(T, 1, FirstAt(T, name_prefix))
                       \o name_prefix \o <<" ">> \o new_name

\* C10: a second pass with the same arguments leaves every paragraph's text
\* as the first pass left it.
C10_SecondPassChangesNothing ==
    (pc = "processed" /\ Len(passes) >= 3)
    => \A pair \in ParagraphPairs(passes[2], passes[3]) :
          TextOf(pair[2]) = TextOf(pair[1])

(***************************************************************************)
(* Properties of generate_monthly_reports_docx                             *)
(***************************************************************************)

\* C9: a failure while writing the file of one day does not keep the files
\* of the later days from being attempted: when the function ends, having
\* entered the loop, every day of the month has been attempted.
C9_EveryDayAttempted ==
    (pc = "done" /\ ~InvalidDate(target_year, target_month)
                 /\ template_file = "ok")
    => attempted = 0..(DaysInMonth(target_year, target_month) - 1)

====
